---- MODULE Spec2Model ----
(***************************************************************************)
(* Tasting-notes backend: two HTTP POST handlers (the App Proxy handler    *)
(* and the direct, origin-checked handler) that read a customer's          *)
(* "tasting/events" metafield, merge one submission into it and write it   *)
(* back through the Shopify Admin GraphQL API.                             *)
(*                                                                         *)
(* JavaScript values are records [t, n, s]: t is the type tag, n the       *)
(* number (t = "num"), s the string as a sequence of one-character strings *)
(* (t = "str").  NaN, Infinity, undefined, the booleans and the objects    *)
(* have their own tags, so that ===, Number(), typeof, truthiness and the  *)
(* JSON round trip act as they do in JS.                                   *)
(***************************************************************************)
EXTENDS Integers, Sequences, FiniteSets, TLC

\* ------------------------------------------------------------------ bounds
\* requests accepted over a run
MaxRequests == 2
\* instants the clock can reach (two instants make one UTC day)
MaxClock == 2
\* accepted submissions of a serial run
MaxSubmissions == 3

\* ---------------------------------------------------------------- JS values
Undefined == [t |-> "undefined", n |-> 0, s |-> <<>>]
Null == [t |-> "null", n |-> 0, s |-> <<>>]
NaN == [t |-> "nan", n |-> 0, s |-> <<>>]
Num(k) == [t |-> "num", n |-> k, s |-> <<>>]
Str(cs) == [t |-> "str", n |-> 0, s |-> cs]
\* what JSON.parse makes of a number too large for a double, such as 1e999
Infinity == [t |-> "inf", n |-> 0, s |-> <<>>]
True == [t |-> "bool", n |-> 1, s |-> <<>>]
False == [t |-> "bool", n |-> 0, s |-> <<>>]
\* an object or an array, whatever it holds
Object == [t |-> "object", n |-> 0, s |-> <<>>]

\* if (v) ...: undefined, null, NaN, 0, "" and false are falsy
Truthy(v) ==
    CASE v.t \in {"num", "bool"} -> v.n # 0
      [] v.t = "str" -> Len(v.s) > 0
      [] v.t \in {"inf", "object"} -> TRUE
      [] OTHER -> FALSE

\* a || b
OrElse(a, b) == IF Truthy(a) THEN a ELSE b

\* a === b: same type and same value; NaN equals nothing, itself included
StrictEq(a, b) == a.t = b.t /\ a.t # "nan" /\ a = b

\* zero is taken for no number
TypeofNumberNotZero(v) == v.t \in {"num", "nan", "inf"} /\ v # Num(0)

\* typeof v === "number"
TypeofNumber(v) == v.t \in {"num", "nan", "inf"}

DigitValue(c) ==
    CASE c = "0" -> 0 [] c = "1" -> 1 [] c = "2" -> 2 [] c = "3" -> 3
      [] c = "4" -> 4 [] c = "5" -> 5 [] c = "6" -> 6 [] c = "7" -> 7
      [] c = "8" -> 8 [] c = "9" -> 9 [] OTHER -> -1

RECURSIVE DigitsValue(_)
DigitsValue(cs) ==
    IF cs = <<>> THEN 0
    ELSE 10 * DigitsValue(SubSeq(cs, 1, Len(cs) - 1)) + DigitValue(cs[Len(cs)])

\* Number(v): a number is itself, a string of decimal digits is the number it
\* writes ("" is 0), any other string is NaN, null is 0, true is 1, false is 0,
\* undefined and an object are NaN
ToNumber(v) ==
    CASE v.t \in {"num", "inf"} -> v
      [] v.t = "bool" -> Num(v.n)
      [] v.t = "str" ->
            IF \A i \in 1..Len(v.s) : DigitValue(v.s[i]) >= 0
            THEN Num(DigitsValue(v.s)) ELSE NaN
      [] v.t = "null" -> Num(0)
      [] OTHER -> NaN

LowerChar(c) ==
    CASE c = "A" -> "a" [] c = "B" -> "b" [] c = "X" -> "x" [] OTHER -> c

\* s.toLowerCase()
ToLowerCase(cs) == [i \in 1..Len(cs) |-> LowerChar(cs[i])]

\* one character too many is kept
SliceOneMore(cs, k) == SubSeq(cs, 1, IF Len(cs) < k + 1 THEN Len(cs) ELSE k + 1)

\* s.slice(0, k)
Slice(cs, k) == SubSeq(cs, 1, IF Len(cs) < k THEN Len(cs) ELSE k)

\* JSON.parse(JSON.stringify(v)) of a property value: NaN and Infinity are
\* written as null
JsonValue(v) == IF v.t \in {"nan", "inf"} THEN Null ELSE v

DigitChar(d) ==
    CASE d = 0 -> "0" [] d = 1 -> "1" [] d = 2 -> "2" [] d = 3 -> "3"
      [] d = 4 -> "4" [] d = 5 -> "5" [] d = 6 -> "6" [] d = 7 -> "7"
      [] d = 8 -> "8" [] OTHER -> "9"

RECURSIVE NumberChars(_)
NumberChars(k) ==
    IF k < 10 THEN <<DigitChar(k)>>
    ELSE Append(NumberChars(k \div 10), DigitChar(k % 10))

\* `${v}` of a string or of a non-negative integer
TemplateString(v) == IF v.t = "str" THEN v.s ELSE NumberChars(v.n)

\* ------------------------------------------------------------ configuration
APP_SECRET == "app-secret"
\* the origins are atoms: `https://${SHOP}` and the two branded domains
ShopOrigin == "https://shop"
ALLOWED_ORIGINS == {ShopOrigin, "https://famelia.com", "https://www.famelia.com"}
\* characters of a note that are kept
NoteLimit == 2000
\* instants of the clock in one UTC day: now.slice(0,10) drops the time of day
InstantsPerDay == 2

\* --------------------------------------------------------- the stored document
\* The metafield of a customer: kind "absent" (no metafield, or an empty
\* value), "malformed" (a value JSON.parse rejects), "store" (the JSON text
\* of {events: [...]}, held as the value it denotes), or "null", "number",
\* "object" (the JSON text of null, of a number, of an object that has no
\* events list).  An event of a "store" that has no wines list is a record
\* without the field wines.
AbsentValue == [kind |-> "absent", events |-> <<>>]
MalformedValue == [kind |-> "malformed", events |-> <<>>]
\* a value that is the empty string: mf?.value is falsy
EmptyValue == [kind |-> "empty", events |-> <<>>]
EmptyStore == [events |-> <<>>]

\* whatever events can be read in the text are kept
ParseStoredLenient(value) == [events |-> value.events]

\* let store = {events: []}; if (mf?.value) { try { store = JSON.parse(mf.value) } catch {} }
ParseStored(value) ==
    CASE value.kind = "store" -> [events |-> value.events]
      [] value.kind \in {"null", "number", "object"} -> [json |-> value.kind]
      [] OTHER -> EmptyStore

\* store.events is a list
HasEvents(store) == "events" \in DOMAIN store

\* evt.wines is a list
HasWines(event) == "wines" \in DOMAIN event

StringifyEntry(w) ==
    [w EXCEPT !.product_id = JsonValue(w.product_id), !.rating = JsonValue(w.rating)]

StringifyEvent(e) ==
    IF HasWines(e)
    THEN [e EXCEPT !.wines = [i \in 1..Len(e.wines) |-> StringifyEntry(e.wines[i])]]
    ELSE e

\* JSON.stringify(store), as the value the text denotes when it is read back
JsonStringify(store) ==
    [kind |-> "store",
     events |-> [i \in 1..Len(store.events) |-> StringifyEvent(store.events[i])]]

\* ------------------------------------------------------------------ the merge
Least(S) == CHOOSE i \in S : \A j \in S : i <= j

\* a find that reads a field the events do not have: nothing is ever found
FindEventWrongField(events, event_handle) == 0

\* store.events.find(e => e.collection_handle === event_handle): its index, 0 if none
FindEvent(events, event_handle) ==
    LET hits == {i \in 1..Len(events) :
                    StrictEq(events[i].collection_handle, event_handle)}
    IN  IF hits = {} THEN 0 ELSE Least(hits)

\* now.slice(0,10)
DateOf(now) == now \div InstantsPerDay

\* the supplied name is not used
NewEventNamedByHandle(event_handle, event_name, now) ==
    [id |-> event_handle,
     name |-> event_handle,
     date |-> now \div InstantsPerDay,
     collection_handle |-> event_handle,
     wines |-> <<>>]

\* the event pushed when none matches
NewEvent(event_handle, event_name, now) ==
    [id |-> event_handle,
     name |-> OrElse(event_name, event_handle),
     date |-> DateOf(now),
     collection_handle |-> event_handle,
     wines |-> <<>>]

\* the value the proxy handler compares stored product ids with
ProxyWineKey(product) == product.product_id

\* the value the direct handler compares stored product ids with
DirectWineKey(product) == ToNumber(product.product_id)

\* the first entry is taken for the product's, whatever its product_id
FindIndexFirst(wines, key) == IF wines = <<>> THEN 0 ELSE 1

\* evt.wines.findIndex(w => w.product_id === key): 0 stands for -1
FindIndex(wines, key) ==
    LET hits == {i \in 1..Len(wines) : StrictEq(wines[i].product_id, key)}
    IN  IF hits = {} THEN 0 ELSE Least(hits)

\* (product.note || "").slice(0, 2000) throws when the note is truthy and no string
NoteFaults(product) == Truthy(product.note) /\ product.note.t # "str"

Entry(product, now) ==
    [product_id |-> ToNumber(product.product_id),
     handle |-> OrElse(product.handle, Str(<<>>)),
     title |-> OrElse(product.title, Str(<<>>)),
     rating |-> IF TypeofNumber(product.rating) THEN product.rating ELSE Null,
     note |-> Str(Slice(OrElse(product.note, Str(<<>>)).s, NoteLimit)),
     updated_at |-> now]

\* the push is forgotten: a new entry is dropped
PutEntryNoPush(wines, idx, entry) ==
    IF idx = 0 THEN wines ELSE [wines EXCEPT ![idx] = entry]

\* if (idx === -1) evt.wines.push(entry); else evt.wines[idx] = entry
PutEntry(wines, idx, entry) ==
    IF idx = 0 THEN Append(wines, entry) ELSE [wines EXCEPT ![idx] = entry]

\* the event that is found takes the name and the date of the submission
MergeRenames(store, payload, now, key) ==
    LET found == FindEvent(store.events, payload.event_handle)
        fresh == NewEvent(payload.event_handle, payload.event_name, now)
        events == IF found = 0
                  THEN Append(store.events, fresh)
                  ELSE [store.events EXCEPT ![found].name = fresh.name,
                                            ![found].date = fresh.date]
        at == IF found = 0 THEN Len(events) ELSE found
        wines == events[at].wines
    IN  [events |-> [events EXCEPT
            ![at].wines = PutEntry(wines, FindIndex(wines, key),
                                   Entry(payload.product, now))]]

\* steps 2 of both handlers: find or push the event, find or push the entry
Merge(store, payload, now, key) ==
    LET found == FindEvent(store.events, payload.event_handle)
        events == IF found = 0
                  THEN Append(store.events,
                              NewEvent(payload.event_handle, payload.event_name, now))
                  ELSE store.events
        at == IF found = 0 THEN Len(events) ELSE found
        wines == events[at].wines
    IN  [events |-> [events EXCEPT
            ![at].wines = PutEntry(wines, FindIndex(wines, key),
                                   Entry(payload.product, now))]]

\* store.events.find(...) throws when store is null or has no events list;
\* evt.wines.findIndex(...) throws when the event found has no wines list
MergeFaults(store, payload) ==
    \/ ~HasEvents(store)
    \/ LET found == FindEvent(store.events, payload.event_handle)
       IN  found # 0 /\ ~HasWines(store.events[found])

ProxyMerge(store, payload, now) ==
    Merge(store, payload, now, ProxyWineKey(payload.product))

DirectMerge(store, payload, now) ==
    Merge(store, payload, now, DirectWineKey(payload.product))

\* ------------------------------------------------------- the proxy signature
\* A header or digest string is [key, msg, len]: the first len characters of
\* the base64 HMAC-SHA256 digest of msg under key.  Digests of different
\* (key, msg) pairs are different strings; the empty string has len 0.
DigestLen == 44
NoBody == [json |-> FALSE, shop |-> Undefined, customer_id |-> Undefined,
           customer_email |-> Undefined, event_handle |-> Undefined,
           event_name |-> Undefined,
           product |-> [present |-> FALSE, product_id |-> Undefined,
                        handle |-> Undefined, title |-> Undefined,
                        rating |-> Undefined, note |-> Undefined]]
EmptyString == [key |-> "", msg |-> NoBody, len |-> 0]

\* crypto.createHmac("sha256", key).update(rawBody).digest("base64")
HmacDigest(key, rawBody) == [key |-> key, msg |-> rawBody, len |-> DigestLen]

\* crypto.timingSafeEqual(Buffer.from(a), Buffer.from(b)) throws when the byte
\* lengths differ
TimingSafeEqualThrows(a, b) == a.len # b.len
TimingSafeEqual(a, b) == a = b

\* the fallback compares only as much as the header holds
FallbackComparePrefix(digest, sig) ==
    sig.len <= digest.len /\ sig.key = digest.key /\ sig.msg = digest.msg

\* the catch branch: return digest === sig
FallbackCompare(digest, sig) == digest = sig

\* headers.get("x-shopify-proxy-signature") || "" ; sigHeader is the header's
\* string, EmptyString when the header is missing
verifyProxySignature(sigHeader, rawBody) ==
    LET sig == sigHeader
        digest == HmacDigest(APP_SECRET, rawBody)
    IN  IF TimingSafeEqualThrows(digest, sig)
        THEN FallbackCompare(digest, sig)
        ELSE TimingSafeEqual(digest, sig)

\* ------------------------------------------------------------------ responses
NoResponse == [status |-> 0, ok |-> FALSE, error |-> "", thrown |-> FALSE]

\* new Response(JSON.stringify({ok: false, error: resMsg}), {status: code})
bad(resMsg, code) == [status |-> code, ok |-> FALSE, error |-> resMsg, thrown |-> FALSE]

\* new Response(JSON.stringify({ok: true})): the status defaults to 200
OkResponse == [status |-> 200, ok |-> TRUE, error |-> "", thrown |-> FALSE]

\* an exception leaves POST: the handler returns no Response of its own
Uncaught == [status |-> 0, ok |-> FALSE, error |-> "", thrown |-> TRUE]

\* `gid://shopify/Customer/${id}`
CustomerGID(id) == TemplateString(id)

\* const {...} = payload || {}; JSON.parse failed: payload = {}
ProxyPayload(raw) == IF raw.json THEN raw ELSE NoBody

\* !event_handle || !product?.product_id
ProxyMissing(payload) ==
    \/ ~Truthy(payload.event_handle)
    \/ ~payload.product.present
    \/ ~Truthy(payload.product.product_id)

\* !shop || !customer_id || !customer_email || !event_handle || !product?.product_id
DirectMissing(body) ==
    \/ ~Truthy(body.shop)
    \/ ~Truthy(body.customer_id)
    \/ ~Truthy(body.customer_email)
    \/ ~Truthy(body.event_handle)
    \/ ~body.product.present
    \/ ~Truthy(body.product.product_id)

\* only the presence of an e-mail on file is checked
VerificationFailsNoCompare(realEmail, customer_email) == ~Truthy(realEmail)

\* !realEmail || realEmail.toLowerCase() !== String(customer_email).toLowerCase()
VerificationFails(realEmail, customer_email) ==
    \/ ~Truthy(realEmail)
    \/ ToLowerCase(realEmail.s) # ToLowerCase(TemplateString(customer_email))

\* ---------------------------------------------------------------------- state
\* metafield: the remote store, the tasting/events metafield of each customer
\* clock:     the instant the last `new Date()` returned
\* started:   requests received so far
\* req:       each request slot: where its handler stands (pc), what it was sent
\*            (endpoint, origin, sig, lcid, body), what it has computed (sigOk,
\*            gid, realEmail, snapshot, store, at), the remote calls it issued
\*            (calls) and its response (resp)
\* lastWriter: the slot whose metafieldsSet was the last to succeed, per customer
VARIABLES metafield, clock, started, req, lastWriter

vars == <<metafield, clock, started, req, lastWriter>>

Slots == {"r1", "r2"}
Customers == {<<"1">>, <<"2">>}

IdleSlot ==
    [pc |-> "idle", endpoint |-> "none", origin |-> "", sig |-> EmptyString,
     lcid |-> Null, body |-> NoBody, sigOk |-> FALSE, gid |-> <<>>,
     realEmail |-> Undefined, snapshot |-> AbsentValue, store |-> EmptyStore,
     at |-> 0, calls |-> <<>>, resp |-> NoResponse]

Init ==
    /\ metafield \in [Customers -> {AbsentValue, JsonStringify(EmptyStore)}]
    /\ clock = 0
    /\ started = 0
    /\ req = [r \in Slots |-> IdleSlot]
    /\ lastWriter = [c \in Customers |-> "none"]

\* if (!res.ok || json.errors) throw new Error(...)
shopifyGraphQLThrows(outcome) == outcome \in {"http-error", "graphql-errors"}

\* a remote call: the operation, the customer it names, how the API answered
Call(op, gid, outcome) == [op |-> op, gid |-> gid, outcome |-> outcome]

\* ------------------------------------------------------------ proxy handler
\* the signature is not checked
ProxyAdmitNoSignature(sigHeader, lcid, raw) ==
    IF ~Truthy(lcid) THEN bad("Not logged in", 401)
    ELSE IF ProxyMissing(ProxyPayload(raw)) THEN bad("Missing event or product", 400)
    ELSE NoResponse

\* lines 36-54: the response that ends the request before any remote call,
\* NoResponse when the request goes on
ProxyAdmit(sigHeader, lcid, raw) ==
    IF ~verifyProxySignature(sigHeader, raw) THEN bad("Bad signature", 401)
    ELSE IF ~Truthy(lcid) THEN bad("Not logged in", 401)
    ELSE IF ProxyMissing(ProxyPayload(raw)) THEN bad("Missing event or product", 400)
    ELSE NoResponse

\* the customer is taken from the body
ProxyCustomerFromBody(lcid, raw) == TemplateString(raw.customer_id)

\* the customer the proxy handler acts for
ProxyCustomer(lcid, raw) == CustomerGID(lcid)

ProxyReceive(r, raw, sigHeader, lcid, limit) ==
    /\ req[r].pc = "idle"
    /\ started < limit
    /\ started' = started + 1
    /\ LET resp == ProxyAdmit(sigHeader, lcid, raw)
           got == [IdleSlot EXCEPT !.endpoint = "proxy", !.body = raw,
                                   !.sig = sigHeader, !.lcid = lcid,
                                   !.sigOk = verifyProxySignature(sigHeader, raw)]
       IN  req' = [req EXCEPT ![r] =
                IF resp # NoResponse
                THEN [got EXCEPT !.pc = "done", !.resp = resp]
                ELSE [got EXCEPT !.pc = "read", !.gid = ProxyCustomer(lcid, raw)]]
    /\ UNCHANGED <<metafield, clock, lastWriter>>

\* new Date(): time has passed since the last reading, or not
Instants == {t \in {clock, clock + 1} : t <= MaxClock}

\* the metafield query and the merge that follows it without an await
ReadAndMerge(r, outcome, now, merged) ==
    /\ req[r].pc = "read"
    /\ LET q == req[r]
           called == [q EXCEPT !.calls = Append(q.calls, Call("read", q.gid, outcome))]
           payload == q.body
       IN  IF \/ shopifyGraphQLThrows(outcome)
              \/ MergeFaults(ParseStored(metafield[q.gid]), payload)
              \/ NoteFaults(payload.product)
           THEN /\ req' = [req EXCEPT ![r] = [called EXCEPT !.pc = "done", !.resp = Uncaught]]
                /\ clock' = clock
           ELSE /\ req' = [req EXCEPT ![r] =
                        [called EXCEPT !.pc = "write",
                                       !.snapshot = metafield[q.gid],
                                       !.at = now,
                                       !.store = merged]]
                /\ clock' = now
    /\ UNCHANGED <<metafield, started, lastWriter>>

\* the value handed to metafieldsSet
WriteValue(store) == JsonStringify(store)

\* the metafieldsSet mutation and the response
WriteBack(r, outcome) ==
    /\ req[r].pc = "write"
    /\ LET q == req[r]
           called == [q EXCEPT !.calls = Append(q.calls, Call("write", q.gid, outcome)),
                               !.pc = "done"]
       IN  IF shopifyGraphQLThrows(outcome)
           THEN /\ req' = [req EXCEPT ![r] = [called EXCEPT !.resp = Uncaught]]
                /\ UNCHANGED <<metafield, lastWriter>>
           ELSE IF outcome = "userErrors"
           THEN /\ req' = [req EXCEPT ![r] = [called EXCEPT !.resp = bad("userErrors", 500)]]
                /\ UNCHANGED <<metafield, lastWriter>>
           ELSE /\ req' = [req EXCEPT ![r] = [called EXCEPT !.resp = OkResponse]]
                /\ metafield' = [metafield EXCEPT ![q.gid] = WriteValue(q.store)]
                /\ lastWriter' = [lastWriter EXCEPT ![q.gid] = r]
    /\ UNCHANGED <<clock, started>>

ProxyRead(r, outcome) ==
    /\ req[r].endpoint = "proxy"
    /\ \E now \in Instants :
          ReadAndMerge(r, outcome, now,
                       ProxyMerge(ParseStored(metafield[req[r].gid]), req[r].body, now))

ProxyWrite(r, outcome) ==
    /\ req[r].endpoint = "proxy"
    /\ WriteBack(r, outcome)

\* ----------------------------------------------------------- direct handler
\* a request without an Origin header is let through
DirectAdmitMissingOrigin(origin, body) ==
    IF origin # "" /\ origin \notin ALLOWED_ORIGINS THEN bad("Origin not allowed", 401)
    ELSE IF ~body.json THEN bad("Invalid JSON", 400)
    ELSE IF DirectMissing(body) THEN bad("Missing required fields", 400)
    ELSE NoResponse

\* lines 38-50: the response that ends the request before any remote call
DirectAdmit(origin, body) ==
    IF origin \notin ALLOWED_ORIGINS THEN bad("Origin not allowed", 401)
    ELSE IF ~body.json THEN bad("Invalid JSON", 400)
    ELSE IF DirectMissing(body) THEN bad("Missing required fields", 400)
    ELSE NoResponse

DirectReceive(r, origin, body, limit) ==
    /\ req[r].pc = "idle"
    /\ started < limit
    /\ started' = started + 1
    /\ LET resp == DirectAdmit(origin, body)
           got == [IdleSlot EXCEPT !.endpoint = "direct", !.body = body,
                                   !.origin = origin]
       IN  req' = [req EXCEPT ![r] =
                IF resp # NoResponse
                THEN [got EXCEPT !.pc = "done", !.resp = resp]
                ELSE [got EXCEPT !.pc = "identity",
                                 !.gid = CustomerGID(body.customer_id)]]
    /\ UNCHANGED <<metafield, clock, lastWriter>>

\* lines 59-63: the identity query and the e-mail comparison
DirectIdentity(r, outcome, realEmail) ==
    /\ req[r].pc = "identity"
    /\ LET q == req[r]
           called == [q EXCEPT !.calls = Append(q.calls, Call("identity", q.gid, outcome))]
       IN  req' = [req EXCEPT ![r] =
                IF shopifyGraphQLThrows(outcome)
                THEN [called EXCEPT !.pc = "done", !.resp = Uncaught]
                ELSE IF VerificationFails(realEmail, q.body.customer_email)
                THEN [called EXCEPT !.pc = "done", !.realEmail = realEmail,
                                    !.resp = bad("Customer verification failed", 401)]
                ELSE [called EXCEPT !.pc = "read", !.realEmail = realEmail]]
    /\ UNCHANGED <<metafield, clock, started, lastWriter>>

DirectRead(r, outcome) ==
    /\ req[r].endpoint = "direct"
    /\ \E now \in Instants :
          ReadAndMerge(r, outcome, now,
                       DirectMerge(ParseStored(metafield[req[r].gid]), req[r].body, now))

DirectWrite(r, outcome) ==
    /\ req[r].endpoint = "direct"
    /\ WriteBack(r, outcome)

\* the response has been sent: the slot is free for the next request
Finish(r) ==
    /\ req[r].pc = "done"
    /\ req' = [req EXCEPT ![r] = IdleSlot]
    /\ UNCHANGED <<metafield, clock, started, lastWriter>>

\* --------------------------------------------------------------- the inputs
HandleA == Str(<<"a">>)
HandleB == Str(<<"b">>)
\* a number, another number, the first number as a numeric string, a word
ProductIds == {Num(1), Num(2), Str(<<"1">>), Str(<<"x">>)}
ShopName == Str(<<"s">>)
EmailA == Str(<<"a", "@", "x">>)
Emails == {EmailA, Str(<<"A", "@", "X">>), Str(<<"b", "@", "x">>)}

MkProduct(pid, rating, note) ==
    [present |-> TRUE, product_id |-> pid, handle |-> Undefined,
     title |-> Undefined, rating |-> rating, note |-> note]

MkBody(shop, cid, email, h, name, product) ==
    [json |-> TRUE, shop |-> shop, customer_id |-> cid, customer_email |-> email,
     event_handle |-> h, event_name |-> name, product |-> product]

\* a body without its event handle, its product or its product id, and one
\* that is no JSON
ProxyDefects(b) ==
    {[b EXCEPT !.event_handle = Undefined],
     [b EXCEPT !.product = NoBody.product],
     [b EXCEPT !.product.product_id = Undefined],
     NoBody}

\* and one without its shop, its customer id or its e-mail
DirectDefects(b) ==
    ProxyDefects(b) \cup
    {[b EXCEPT !.shop = Undefined],
     [b EXCEPT !.customer_id = Undefined],
     [b EXCEPT !.customer_email = Undefined]}

\* what the storefront sends to the proxy; the handler does not read customer_id
ProxyBodies(handles, pids) ==
    {MkBody(Undefined, Str(<<"2">>), Undefined, h, Undefined,
            MkProduct(pid, Undefined, Undefined)) : h \in handles, pid \in pids}

DirectBodies(customers, emails, handles, pids) ==
    {MkBody(ShopName, Str(c), e, h, Undefined, MkProduct(pid, Undefined, Undefined)) :
        c \in customers, e \in emails, h \in handles, pid \in pids}

\* the same body with another event handle: a body the signature was not made for
Tampered(raw) ==
    IF raw.event_handle = HandleA
    THEN [raw EXCEPT !.event_handle = HandleB]
    ELSE [raw EXCEPT !.event_handle = HandleA, !.json = TRUE]

\* the signature headers a request with body raw may carry: the right digest, a
\* digest under another secret, the right digest of another body, the right
\* digest cut by one character, no header
SigHeaders(raw) ==
    {HmacDigest(APP_SECRET, raw),
     HmacDigest("other-secret", raw),
     HmacDigest(APP_SECRET, Tampered(raw)),
     [HmacDigest(APP_SECRET, raw) EXCEPT !.len = DigestLen - 1],
     EmptyString}

\* url.searchParams.get("logged_in_customer_id"): null, "", or a customer's id
LoggedInIds == {Null, Str(<<>>)} \cup {Str(c) : c \in Customers}

\* request.headers.get("origin"): "" stands for null, the header is missing
Origins == ALLOWED_ORIGINS \cup {"https://evil.example", ""}

ReadOutcomes == {"ok", "http-error", "graphql-errors"}
WriteOutcomes == ReadOutcomes \cup {"userErrors"}
\* customer(id) { email }: the e-mail on file, null when there is none
OnFile == {EmailA, Str(<<"b", "@", "x">>), Null}

\* proxy requests: a body, a signature header and a logged_in_customer_id
ProxyRequests(bodies, ids) ==
    {[raw |-> raw, sig |-> sg, lcid |-> id] :
        raw \in bodies, sg \in UNION {SigHeaders(b) : b \in bodies}, id \in ids}

\* proxy requests signed by Shopify for a logged-in customer
SignedRequests(bodies, ids) ==
    {[raw |-> raw, sig |-> HmacDigest(APP_SECRET, raw), lcid |-> id] :
        raw \in bodies, id \in ids}

NextOf(slots, limit, proxyRequests, origins, directBodies) ==
    \/ \E r \in slots, p \in proxyRequests :
          ProxyReceive(r, p.raw, p.sig, p.lcid, limit)
    \/ \E r \in slots, outcome \in ReadOutcomes : ProxyRead(r, outcome)
    \/ \E r \in slots, outcome \in WriteOutcomes : ProxyWrite(r, outcome)
    \/ \E r \in slots, origin \in origins, body \in directBodies :
          DirectReceive(r, origin, body, limit)
    \/ \E r \in slots, outcome \in ReadOutcomes, realEmail \in OnFile :
          DirectIdentity(r, outcome, realEmail)
    \/ \E r \in slots, outcome \in ReadOutcomes : DirectRead(r, outcome)
    \/ \E r \in slots, outcome \in WriteOutcomes : DirectWrite(r, outcome)
    \/ \E r \in slots : Finish(r)

\* One request at a time, of either endpoint, with every kind of header, query
\* and body: the trust checks, the validation and the remote failures.
SpecProxyBodies ==
    LET valid == ProxyBodies({HandleA}, {Num(1), Str(<<"1">>)})
    IN  valid \cup UNION {ProxyDefects(b) : b \in valid}

SpecDirectBodies ==
    LET valid == DirectBodies(Customers, Emails, {HandleA}, {Num(1)})
    IN  valid \cup UNION {DirectDefects(b) : b \in {v \in valid :
                              v.customer_id = Str(<<"1">>) /\ v.customer_email = EmailA}}

SpecProxyRequests == ProxyRequests(SpecProxyBodies, LoggedInIds)

Next ==
    NextOf({"r1"}, MaxRequests, SpecProxyRequests, Origins, SpecDirectBodies)

Spec == Init /\ [][Next]_vars

\* Accepted submissions of one customer, one after the other, through either
\* endpoint: what a sequence of merges stores.
SerialProxyRequests ==
    SignedRequests(ProxyBodies({HandleA, HandleB}, ProductIds), {Str(<<"1">>)})

NextSerial ==
    NextOf({"r1"}, MaxSubmissions, SerialProxyRequests, {ShopOrigin},
           DirectBodies({<<"1">>}, {EmailA}, {HandleA, HandleB}, ProductIds))

\* the other customer has no metafield and sends nothing
InitOne == Init /\ metafield[<<"2">>] = AbsentValue

SpecSerial == InitOne /\ [][NextSerial]_vars

\* Two requests of one customer handled concurrently.
RaceProxyRequests ==
    SignedRequests(ProxyBodies({HandleA}, {Num(1), Num(2)}), {Str(<<"1">>)})

NextRace ==
    NextOf(Slots, MaxRequests, RaceProxyRequests, {ShopOrigin},
           DirectBodies({<<"1">>}, {EmailA}, {HandleA}, {Num(1), Num(2)}))

SpecRace == InitOne /\ [][NextRace]_vars

\* Two accepted submissions of one customer for one event, the product id given
\* as a number or as a numeric string: a submission and its repetition.
RepeatProductIds == {Num(1), Str(<<"1">>)}

RepeatProxyRequests ==
    SignedRequests(ProxyBodies({HandleA}, RepeatProductIds), {Str(<<"1">>)})

NextRepeat ==
    NextOf(Slots, MaxRequests, RepeatProxyRequests, {ShopOrigin},
           DirectBodies({<<"1">>}, {EmailA}, {HandleA}, RepeatProductIds))

SpecRepeat == InitOne /\ [][NextRepeat]_vars

\* Accepted submissions of one customer whose metafield starts absent, empty,
\* unparsable or as an empty store: events are created, named, dated and
\* filled.
EventNames == {Undefined, Str(<<"n">>), Str(<<"m">>)}

\* the bodies with each of the event names
Named(bodies, names) ==
    {[b EXCEPT !.event_name = name] : b \in bodies, name \in names}

\* an event as a submission for product 1 at instant 0 stored it
SeedEvent ==
    StringifyEvent([NewEvent(HandleA, Undefined, 0) EXCEPT
                        !.wines = <<Entry(MkProduct(Num(1), Undefined, Undefined), 0)>>])

\* a value JSON.parse rejects although the text of an event can be read in it:
\* a document cut short
TruncatedValue == [kind |-> "malformed", events |-> <<SeedEvent>>]

StoredValues ==
    {AbsentValue, EmptyValue, MalformedValue, TruncatedValue, JsonStringify(EmptyStore)}

InitStored ==
    /\ metafield \in [Customers -> StoredValues]
    /\ metafield[<<"2">>] = AbsentValue
    /\ clock = 0
    /\ started = 0
    /\ req = [r \in Slots |-> IdleSlot]
    /\ lastWriter = [c \in Customers |-> "none"]

StoredProxyRequests ==
    SignedRequests(Named(ProxyBodies({HandleA, HandleB}, {Num(1), Num(2)}), EventNames),
                   {Str(<<"1">>)})

NextStored ==
    NextOf({"r1"}, MaxRequests, StoredProxyRequests, {ShopOrigin},
           Named(DirectBodies({<<"1">>}, {EmailA}, {HandleA, HandleB}, {Num(1), Num(2)}),
                 EventNames))

SpecStored == InitStored /\ [][NextStored]_vars

\* Accepted submissions of one customer for one event and one product, with
\* every kind of rating and of note: what an entry stores.
\* a text of k characters in which neighbours differ
Text(k) == [i \in 1..k |-> DigitChar(i % 10)]

\* product.rating: absent, null, numbers, a number no double holds, a string,
\* the booleans, an object
Ratings ==
    {Undefined, Null, Num(0), Num(5), Infinity, Str(<<"5">>), True, False, Object}

\* product.note: absent, null, empty, short, as long as the limit, longer
\* by one and by more, and a number
Notes ==
    {Undefined, Null, Str(<<>>), Str(<<"o", "a", "k">>), Str(Text(NoteLimit)),
     Str(Text(NoteLimit + 1)), Str(Text(NoteLimit + 7)), Num(7)}

\* the bodies with each rating beside no note, each note beside no rating,
\* and a rating beside a long note
WithFields(bodies) ==
    {[b EXCEPT !.product.rating = f[1], !.product.note = f[2]] :
        b \in bodies,
        f \in {<<rating, Undefined>> : rating \in Ratings}
                \cup {<<Undefined, note>> : note \in Notes}
                \cup {<<Num(5), Str(Text(NoteLimit + 1))>>}}

EntryProxyRequests ==
    SignedRequests(WithFields(ProxyBodies({HandleA}, {Num(1)})), {Str(<<"1">>)})

NextEntry ==
    NextOf({"r1"}, MaxRequests, EntryProxyRequests, {ShopOrigin},
           WithFields(DirectBodies({<<"1">>}, {EmailA}, {HandleA}, {Num(1)})))

SpecEntry == InitOne /\ [][NextEntry]_vars

\* Accepted submissions of one customer whose metafield holds JSON that
\* another writer put there: not a tasting store, or a store with an event
\* that has no wines list.
NullValue == [kind |-> "null", events |-> <<>>]
NumberValue == [kind |-> "number", events |-> <<>>]
NoEventsValue == [kind |-> "object", events |-> <<>>]

\* {"events": [an event for handle a without wines]}
NoWinesValue ==
    [kind |-> "store",
     events |-> <<[id |-> HandleA, name |-> HandleA, date |-> 0,
                   collection_handle |-> HandleA]>>]

ForeignValues == {NullValue, NumberValue, NoEventsValue, NoWinesValue}

InitForeign ==
    /\ metafield \in [Customers -> ForeignValues \cup {AbsentValue}]
    /\ metafield[<<"1">>] \in ForeignValues
    /\ metafield[<<"2">>] = AbsentValue
    /\ clock = 0
    /\ started = 0
    /\ req = [r \in Slots |-> IdleSlot]
    /\ lastWriter = [c \in Customers |-> "none"]

ForeignProxyRequests ==
    SignedRequests(ProxyBodies({HandleA, HandleB}, {Num(1)}), {Str(<<"1">>)})

NextForeign ==
    NextOf({"r1"}, MaxRequests, ForeignProxyRequests, {ShopOrigin},
           DirectBodies({<<"1">>}, {EmailA}, {HandleA, HandleB}, {Num(1)}))

SpecForeign == InitForeign /\ [][NextForeign]_vars

\* ------------------------------------------------------------------ claims
Stored(c) == metafield[c].events

\* the stored product id a submitted product id becomes
StoredId(pid) == JsonValue(ToNumber(pid))

\* C1: in every stored event no two wine entries have the same product_id,
\* whatever accepted submissions came before, through either endpoint.
C1_OneEntryPerProductId ==
    \A c \in Customers : \A e \in 1..Len(Stored(c)) :
        \A i, j \in 1..Len(Stored(c)[e].wines) :
            i < j => Stored(c)[e].wines[i].product_id # Stored(c)[e].wines[j].product_id

\* C2: in every stored document no two events have the same collection_handle.
C2_OneEventPerHandle ==
    \A c \in Customers : \A i, j \in 1..Len(Stored(c)) :
        i < j => Stored(c)[i].collection_handle # Stored(c)[j].collection_handle

\* C2 witness: a submission for a handle that already had an event was stored,
\* and the document has as many events as before.
C2_Witness ==
    LET q == req["r1"]
    IN  /\ q.pc = "done" /\ q.resp.ok
        /\ \E i \in 1..Len(q.snapshot.events) :
              q.snapshot.events[i].collection_handle = q.body.event_handle
        /\ Len(Stored(q.gid)) = Len(q.snapshot.events)
        /\ Len(Stored(q.gid)) = 2

\* the stored entries of the event with this handle that carry the product id
EntriesFor(events, event_handle, pid) ==
    UNION {{<<e, i>> : i \in {k \in 1..Len(events[e].wines) :
                                events[e].wines[k].product_id = StoredId(pid)}} :
             e \in {k \in 1..Len(events) :
                       events[k].collection_handle = event_handle}}

\* both requests are answered ok:true, for the same customer, from the same
\* prior document, and second's write was the later one
BothWroteFromOneRead(first, second) ==
    /\ first # second
    /\ req[first].pc = "done" /\ req[first].resp.ok
    /\ req[second].pc = "done" /\ req[second].resp.ok
    /\ req[first].gid = req[second].gid
    /\ req[first].snapshot = req[second].snapshot
    /\ lastWriter[req[second].gid] = second

\* C3: when two concurrent requests of one customer have read the same prior
\* document and both have answered ok:true, the stored document holds the
\* later writer's entry, stamped with its instant, and nothing of the earlier
\* writer's submission unless the prior document already had an entry for it:
\* the later write replaces the whole document.
C3_LastWriterWins ==
    \A first, second \in Slots :
        BothWroteFromOneRead(first, second) =>
            LET a == req[first]
                b == req[second]
                doc == Stored(b.gid)
            IN  /\ \E x \in EntriesFor(doc, b.body.event_handle, b.body.product.product_id) :
                      doc[x[1]].wines[x[2]].updated_at = b.at
                /\ (/\ StoredId(a.body.product.product_id)
                          # StoredId(b.body.product.product_id)
                    /\ EntriesFor(a.snapshot.events, a.body.event_handle,
                                  a.body.product.product_id) = {})
                   => EntriesFor(doc, a.body.event_handle,
                                 a.body.product.product_id) = {}

\* C3 witness: both requests answered ok:true after reading the same prior
\* document, and the earlier writer's entry is not in the stored document.
C3_Witness ==
    \E first, second \in Slots :
        /\ BothWroteFromOneRead(first, second)
        /\ StoredId(req[first].body.product.product_id)
              # StoredId(req[second].body.product.product_id)
        /\ EntriesFor(Stored(req[first].gid), req[first].body.event_handle,
                      req[first].body.product.product_id) = {}
        /\ EntriesFor(Stored(req[second].gid), req[second].body.event_handle,
                      req[second].body.product.product_id) # {}

\* the positions of a request's calls of one kind
CallsOf(q, op) == {i \in 1..Len(q.calls) : q.calls[i].op = op}

\* some remote call of the request was answered with a failure
RemoteFailed(q) ==
    \E i \in 1..Len(q.calls) : q.calls[i].outcome # "ok"

\* C4: every request that has ended has a JSON response; a failed request has
\* {ok:false} with status 401, 400 or 500, and one whose remote call failed
\* has status 500.  No request ends in an exception that leaves the handler.
C4_EveryFailureAnswered ==
    \A r \in Slots :
        req[r].pc = "done" =>
            /\ ~req[r].resp.thrown
            /\ req[r].resp.ok \/ req[r].resp.status \in {400, 401, 500}
            /\ RemoteFailed(req[r]) => req[r].resp.status = 500

\* the identity query of the request was answered, with realEmail
IdentityAnswered(q) ==
    \E i \in CallsOf(q, "identity") : q.calls[i].outcome = "ok"

\* the e-mail on file equals the supplied one but for the case of its letters
EmailsAgree(q) ==
    /\ q.realEmail.t = "str" /\ Len(q.realEmail.s) > 0
    /\ q.body.customer_email.t = "str"
    /\ Len(q.realEmail.s) = Len(q.body.customer_email.s)
    /\ \A i \in 1..Len(q.realEmail.s) :
          LowerChar(q.realEmail.s[i]) = LowerChar(q.body.customer_email.s[i])

\* the request passed its endpoint's trust checks: the signature and the
\* logged-in customer, or the origin and the identity query
TrustVerified(q) ==
    IF q.endpoint = "proxy"
    THEN q.sig = HmacDigest(APP_SECRET, q.body) /\ Truthy(q.lcid)
    ELSE q.origin \in ALLOWED_ORIGINS /\ IdentityAnswered(q) /\ EmailsAgree(q)

\* the body is JSON and has every field its endpoint requires
PayloadValid(q) ==
    /\ q.body.json
    /\ Truthy(q.body.event_handle)
    /\ q.body.product.present /\ Truthy(q.body.product.product_id)
    /\ q.endpoint = "direct" =>
          Truthy(q.body.shop) /\ Truthy(q.body.customer_id)
              /\ Truthy(q.body.customer_email)

C5_WriteGuarded ==
    \A r \in Slots :
        /\ Cardinality(CallsOf(req[r], "write")) <= 1
        /\ \A w \in CallsOf(req[r], "write") :
              /\ TrustVerified(req[r])
              /\ PayloadValid(req[r])
              /\ \E i \in CallsOf(req[r], "read") :
                    i < w /\ req[r].calls[i].outcome = "ok"

C5_OnlyAWriteChanges ==
    \A c \in Customers :
        metafield'[c] # metafield[c] =>
            \E r \in Slots :
                /\ req[r].pc = "write" /\ req[r].gid = c
                /\ CallsOf(req[r], "write") = {}
                /\ req'[r].resp.ok
                /\ req'[r].calls = Append(req[r].calls, Call("write", c, "ok"))

\* C5: a request issues the metafieldsSet write at most once, and only after
\* its trust check, its payload validation and its metafield read have
\* succeeded; the stored document changes only in the step of such a write, so
\* a request that failed earlier leaves it as it was.
C5_NoWriteAfterFailure == []C5_WriteGuarded /\ [][C5_OnlyAWriteChanges]_vars

\* C5 witness: a request failed at the metafield read and issued no write.
C5_Witness ==
    \E r \in Slots :
        /\ req[r].pc = "done" /\ ~req[r].resp.ok
        /\ \E i \in CallsOf(req[r], "read") : req[r].calls[i].outcome # "ok"
        /\ CallsOf(req[r], "write") = {}

\* C6: a direct request whose Origin is not in the allow-list, a missing
\* Origin included, is answered 401 and issues no remote call.
C6_BadOriginRejected ==
    \A r \in Slots :
        (req[r].endpoint = "direct" /\ req[r].origin \notin ALLOWED_ORIGINS) =>
            /\ req[r].pc = "done"
            /\ req[r].resp = bad("Origin not allowed", 401)
            /\ req[r].calls = <<>>

\* C6 witness: a direct request without an Origin header and with a body that
\* has every required field was answered 401.
C6_Witness ==
    \E r \in Slots :
        /\ req[r].endpoint = "direct" /\ req[r].origin = ""
        /\ PayloadValid(req[r])
        /\ req[r].resp.status = 401 /\ req[r].calls = <<>>

\* C7: the direct handler reads or writes the tasting metafield of customer_id
\* only after the identity query returned an e-mail on file that equals the
\* supplied e-mail case-insensitively; when none is on file or they differ the
\* request is answered 401 and issues neither the read nor the write.
C7_OnlyVerifiedCustomer ==
    \A r \in Slots :
        req[r].endpoint = "direct" =>
            /\ \A i \in CallsOf(req[r], "read") \cup CallsOf(req[r], "write") :
                  /\ req[r].calls[i].gid = TemplateString(req[r].body.customer_id)
                  /\ \E j \in CallsOf(req[r], "identity") :
                        j < i /\ req[r].calls[j].outcome = "ok"
                              /\ req[r].calls[j].gid = req[r].calls[i].gid
                  /\ EmailsAgree(req[r])
            /\ (IdentityAnswered(req[r]) /\ ~EmailsAgree(req[r])) =>
                  /\ req[r].pc = "done"
                  /\ req[r].resp = bad("Customer verification failed", 401)
                  /\ CallsOf(req[r], "read") \cup CallsOf(req[r], "write") = {}

\* C7 witness: the metafield was written for a customer whose e-mail on file
\* differs from the supplied one in the case of its letters only.
C7_Witness ==
    \E r \in Slots :
        /\ req[r].endpoint = "direct"
        /\ CallsOf(req[r], "write") # {}
        /\ req[r].realEmail # req[r].body.customer_email

\* C8: the proxy handler answers 401 "Bad signature" to a request whose
\* signature is not the digest of its body, and 401 "Not logged in" to a
\* signed request without a logged_in_customer_id, with no remote call in
\* either case; every remote call names the customer logged_in_customer_id.
C8_ProxyTrust ==
    \A r \in Slots :
        req[r].endpoint = "proxy" =>
            /\ req[r].sig # HmacDigest(APP_SECRET, req[r].body) =>
                  /\ req[r].pc = "done"
                  /\ req[r].resp = bad("Bad signature", 401)
                  /\ req[r].calls = <<>>
            /\ (req[r].sig = HmacDigest(APP_SECRET, req[r].body)
                    /\ req[r].lcid \in {Null, Str(<<>>)}) =>
                  /\ req[r].pc = "done"
                  /\ req[r].resp = bad("Not logged in", 401)
                  /\ req[r].calls = <<>>
            /\ \A i \in 1..Len(req[r].calls) :
                  /\ req[r].lcid.t = "str"
                  /\ req[r].calls[i].gid = req[r].lcid.s

\* C8 witness: the metafield was written for the logged-in customer while the
\* body named another customer.
C8_Witness ==
    \E r \in Slots :
        /\ req[r].endpoint = "proxy"
        /\ CallsOf(req[r], "write") # {}
        /\ req[r].body.customer_id # req[r].lcid
        /\ req[r].body.customer_id.t = "str"

\* C9: verifyProxySignature accepts exactly the header that is the base64
\* HMAC-SHA256 digest of the raw body under the app secret: the digest of
\* another body, a digest under another secret, a missing header and every
\* header of another length (the fallback comparison) are rejected.
C9_SignatureExact ==
    \A r \in Slots :
        req[r].endpoint = "proxy" =>
            /\ req[r].sigOk <=> req[r].sig = HmacDigest(APP_SECRET, req[r].body)
            /\ req[r].sig.len # DigestLen => ~req[r].sigOk
            /\ req[r].sig = EmptyString => ~req[r].sigOk
            /\ req[r].sigOk <=> req[r].resp.error # "Bad signature"

\* C9 witness: a request carried the digest of another body under the app
\* secret and was rejected.
C9_Witness ==
    \E r \in Slots :
        /\ req[r].endpoint = "proxy"
        /\ req[r].sig.key = APP_SECRET /\ req[r].sig.len = DigestLen
        /\ req[r].sig.msg # req[r].body
        /\ ~req[r].sigOk /\ req[r].resp.status = 401

\* C10: a stored submission for an (event_handle, product_id) pair that had an
\* entry replaced that entry where it stood: the document has the events it
\* had, every event has as many entries as it had, and every event and entry
\* but the replaced one is as it was.
C10_ReplacedInPlace ==
    \A r \in Slots :
        LET q == req[r]
            before == q.snapshot.events
            after == Stored(q.gid)
            had == EntriesFor(before, q.body.event_handle, q.body.product.product_id)
        IN  (/\ q.pc = "done" /\ q.resp.ok
             /\ lastWriter[q.gid] = r
             /\ ToNumber(q.body.product.product_id).t = "num"
             /\ had # {}) =>
                /\ Len(after) = Len(before)
                /\ \A e \in 1..Len(before) :
                      /\ Len(after[e].wines) = Len(before[e].wines)
                      /\ [after[e] EXCEPT !.wines = <<>>] = [before[e] EXCEPT !.wines = <<>>]
                      /\ Cardinality({i \in 1..Len(before[e].wines) :
                                         after[e].wines[i] # before[e].wines[i]}) <= 1
                      /\ \A i \in 1..Len(before[e].wines) :
                            after[e].wines[i] # before[e].wines[i] =>
                                /\ <<e, i>> \in had
                                /\ after[e].wines[i] = StringifyEntry(Entry(q.body.product, q.at))

\* a list of events with the updated_at of every entry set aside
WithoutStamps(events) ==
    [e \in 1..Len(events) |->
        [events[e] EXCEPT !.wines =
            [i \in 1..Len(events[e].wines) |->
                [events[e].wines[i] EXCEPT !.updated_at = 0]]]]

\* both requests are answered ok:true; second carried the body first carried,
\* to the same endpoint, for the same customer, read the document first wrote
\* and wrote last
RepeatedAfter(first, second) ==
    /\ first # second
    /\ req[first].pc = "done" /\ req[first].resp.ok
    /\ req[second].pc = "done" /\ req[second].resp.ok
    /\ req[first].gid = req[second].gid
    /\ req[first].endpoint = req[second].endpoint
    /\ req[first].body = req[second].body
    /\ req[second].snapshot = WriteValue(req[first].store)
    /\ lastWriter[req[second].gid] = second

\* C11: a submission repeated through the same endpoint stores the document
\* the first submission stored: the same events, the same entries at the same
\* positions, the same fields but for updated_at.
C11_Idempotent ==
    \A first, second \in Slots :
        RepeatedAfter(first, second) =>
            WithoutStamps(Stored(req[second].gid))
                = WithoutStamps(WriteValue(req[first].store).events)

\* the metafield value gives no document: it is absent, empty or unparsable
Unusable(value) == value.kind \in {"absent", "empty", "malformed"}

\* the events are one event, of the submission's handle, holding one entry,
\* of the submission's product and instant
OnlyTheSubmission(events, body, at) ==
    /\ Len(events) = 1
    /\ events[1].collection_handle = body.event_handle
    /\ Len(events[1].wines) = 1
    /\ events[1].wines[1].product_id = StoredId(body.product.product_id)
    /\ events[1].wines[1].updated_at = at

\* the metafield query of a request is answered while the value is unusable:
\* the handler goes on to the write, with the one-event document
C12_MergedIntoEmpty ==
    \A r \in Slots :
        (/\ req[r].pc = "read"
         /\ Unusable(metafield[req[r].gid])
         /\ req'[r].calls = Append(req[r].calls, Call("read", req[r].gid, "ok"))) =>
            /\ req'[r].pc = "write"
            /\ ~req'[r].resp.thrown
            /\ OnlyTheSubmission(req'[r].store.events, req[r].body, req'[r].at)

\* a request that read an unusable value and was answered ok:true stored the
\* one-event document
C12_OnlyTheSubmissionStored ==
    \A r \in Slots :
        (/\ req[r].pc = "done" /\ req[r].resp.ok
         /\ lastWriter[req[r].gid] = r
         /\ Unusable(req[r].snapshot)) =>
            /\ metafield[req[r].gid].kind = "store"
            /\ OnlyTheSubmission(Stored(req[r].gid), req[r].body, req[r].at)

\* C12: when the stored metafield value is absent, empty or not parsable as
\* JSON, the handler raises no error over it, merges the submission into the
\* empty store and writes a document that holds exactly the one event and the
\* one entry of the submission; what the unparsable text held is gone.
C12_UnusableStartsEmpty ==
    []C12_OnlyTheSubmissionStored /\ [][C12_MergedIntoEmpty]_vars

\* C12 witness: a submission for another event than the one readable in a
\* document cut short was answered ok:true.
C12_Witness ==
    \E r \in Slots :
        /\ req[r].pc = "done" /\ req[r].resp.ok
        /\ req[r].snapshot = TruncatedValue
        /\ req[r].body.event_handle # SeedEvent.collection_handle
        /\ Len(Stored(req[r].gid)) = 1

\* the request was answered ok:true and its write is the last one of its
\* customer's metafield
Wrote(r) ==
    /\ req[r].pc = "done" /\ req[r].resp.ok
    /\ lastWriter[req[r].gid] = r

\* the events the request read
Before(q) == ParseStored(q.snapshot).events

\* no event that was read has the handle
NoEventFor(events, event_handle) ==
    \A e \in 1..Len(events) : events[e].collection_handle # event_handle

\* the entry is the one of the request
EntryOf(w, q) ==
    /\ w.product_id = StoredId(q.body.product.product_id)
    /\ w.updated_at = q.at

\* C13: a submission whose event_handle no stored event has appends exactly
\* one event at the end of the list: its id and collection_handle are the
\* event_handle, its name is the event_name when one is supplied and the
\* event_handle otherwise, its wine list holds exactly the submission's entry;
\* the events stored before keep their content and their order.
C13_NewEventAppended ==
    \A r \in Slots :
        LET q == req[r]
            after == Stored(q.gid)
            new == after[Len(after)]
        IN  (Wrote(r) /\ NoEventFor(Before(q), q.body.event_handle)) =>
                /\ Len(after) = Len(Before(q)) + 1
                /\ \A e \in 1..Len(Before(q)) : after[e] = Before(q)[e]
                /\ new.id = q.body.event_handle
                /\ new.collection_handle = q.body.event_handle
                /\ new.name = IF q.body.event_name = Undefined
                              THEN q.body.event_handle ELSE q.body.event_name
                /\ Len(new.wines) = 1
                /\ EntryOf(new.wines[1], q)

\* C13 witness: a second event, with a supplied name, was appended to a
\* document that held one event.
C13_Witness ==
    \E r \in Slots :
        /\ Wrote(r)
        /\ Len(Before(req[r])) = 1
        /\ NoEventFor(Before(req[r]), req[r].body.event_handle)
        /\ req[r].body.event_name # Undefined
        /\ Len(Stored(req[r].gid)) = 2
        /\ Stored(req[r].gid)[2].name = req[r].body.event_name

\* C14: a submission for a stored event and a product_id that has no entry in
\* it leaves the number of events as it was and appends exactly one entry at
\* the end of that event's wine list; the entries the event had keep their
\* positions, and the other events are as they were.
C14_NewEntryAppended ==
    \A r \in Slots :
        LET q == req[r]
            after == Stored(q.gid)
            e == FindEvent(Before(q), q.body.event_handle)
            had == Before(q)[e].wines
        IN  (/\ Wrote(r)
             /\ ~NoEventFor(Before(q), q.body.event_handle)
             /\ EntriesFor(Before(q), q.body.event_handle,
                           q.body.product.product_id) = {}) =>
                /\ Len(after) = Len(Before(q))
                /\ \A o \in 1..Len(after) : o # e => after[o] = Before(q)[o]
                /\ [after[e] EXCEPT !.wines = <<>>] = [Before(q)[e] EXCEPT !.wines = <<>>]
                /\ Len(after[e].wines) = Len(had) + 1
                /\ \A i \in 1..Len(had) : after[e].wines[i] = had[i]
                /\ EntryOf(after[e].wines[Len(had) + 1], q)

\* C14 witness: a second entry was appended to the one entry of a stored
\* event.
C14_Witness ==
    \E r \in Slots :
        /\ Wrote(r)
        /\ Len(Before(req[r])) = 1
        /\ Before(req[r])[1].collection_handle = req[r].body.event_handle
        /\ Len(Before(req[r])[1].wines) = 1
        /\ Len(Stored(req[r].gid)) = 1
        /\ Len(Stored(req[r].gid)[1].wines) = 2
        /\ Stored(req[r].gid)[1].wines[1].product_id
              # Stored(req[r].gid)[1].wines[2].product_id

\* the stored entries of the pair the request submitted
Submitted(r) ==
    LET q == req[r]
    IN  {Stored(q.gid)[x[1]].wines[x[2]] :
            x \in EntriesFor(Stored(q.gid), q.body.event_handle,
                             q.body.product.product_id)}

\* the stored note is the submitted one as far as its 2000th character
NoteKept(stored, note) ==
    /\ stored.t = "str"
    /\ IF note.t # "str" THEN stored.s = <<>>
       ELSE /\ Len(note.s) <= 2000 => stored.s = note.s
            /\ Len(note.s) > 2000 =>
                  /\ Len(stored.s) = 2000
                  /\ \A i \in 1..2000 : stored.s[i] = note.s[i]

\* C15: the note stored in an entry is the first min(length, 2000) characters
\* of the submitted note: 2000 characters of a longer note, a shorter note
\* unchanged, the empty string for a missing note; no stored entry has a note
\* of more than 2000 characters.
C15_NoteTruncated ==
    /\ \A r \in Slots :
          Wrote(r) =>
              /\ Submitted(r) # {}
              /\ \A w \in Submitted(r) : NoteKept(w.note, req[r].body.product.note)
    /\ \A c \in Customers : \A e \in 1..Len(Stored(c)) :
          \A i \in 1..Len(Stored(c)[e].wines) :
              Len(Stored(c)[e].wines[i].note.s) <= 2000

\* C15 witness: a note of 2001 characters was submitted and 2000 characters
\* are stored.
C15_Witness ==
    \E r \in Slots :
        /\ Wrote(r)
        /\ req[r].body.product.note.t = "str"
        /\ Len(req[r].body.product.note.s) = 2001
        /\ \E w \in Submitted(r) : Len(w.note.s) = 2000

\* the submitted rating is a JSON number: one a double holds, or one too large
IsNumber(rating) == rating.t \in {"num", "inf"}

\* C16, as stated: the stored rating is the submitted rating when that is a
\* number, 0 included, and null for every other submitted value.
C16_RatingVerbatim ==
    \A r \in Slots :
        Wrote(r) =>
            \A w \in Submitted(r) :
                w.rating = IF IsNumber(req[r].body.product.rating)
                           THEN req[r].body.product.rating ELSE Null

\* C16, amended: the stored rating is the submitted rating when that is a
\* finite number, 0 included; it is null for a number too large for a double
\* (1e999 is read as Infinity, which JSON.stringify writes as null) and for
\* every submitted value that is no number: a string, a boolean, null, an
\* object, none.
C16_FiniteRatingVerbatim ==
    \A r \in Slots :
        Wrote(r) =>
            /\ Submitted(r) # {}
            /\ \A w \in Submitted(r) :
                  w.rating = IF req[r].body.product.rating.t = "num"
                             THEN req[r].body.product.rating ELSE Null

\* C16 witness: the rating 0 was submitted and is stored as 0.
C16_Witness ==
    \E r \in Slots :
        /\ Wrote(r)
        /\ req[r].body.product.rating = Num(0)
        /\ \E w \in Submitted(r) : w.rating = Num(0)

\* C17: after every accepted submission of a serial run the event's wine list
\* holds, for the submitted (event_handle, product_id) pair, one entry, made
\* of the data of that submission alone: no older entry of the pair stands
\* beside it and no field of an older entry is left in it; the entries of the
\* other pairs are those of their own latest submissions, untouched.
C17_LatestOnly ==
    \A r \in Slots :
        LET q == req[r]
            after == Stored(q.gid)
            mine == EntriesFor(after, q.body.event_handle, q.body.product.product_id)
        IN  Wrote(r) =>
                /\ Cardinality(mine) = 1
                /\ \A x \in mine :
                      after[x[1]].wines[x[2]] = StringifyEntry(Entry(q.body.product, q.at))
                /\ \A e \in 1..Len(Before(q)) : \A i \in 1..Len(Before(q)[e].wines) :
                      <<e, i>> \notin mine => after[e].wines[i] = Before(q)[e].wines[i]

\* what an event is apart from its wine list
Heading(event) == [event EXCEPT !.wines = <<>>]

\* every event of a stored document is in the next stored document, at its
\* place, under the same id, name, date and collection_handle
C18_HeadingsKept ==
    \A c \in Customers :
        metafield[c].kind = "store" =>
            /\ metafield'[c].kind = "store"
            /\ Len(metafield'[c].events) >= Len(metafield[c].events)
            /\ \A e \in 1..Len(metafield[c].events) :
                  Heading(metafield'[c].events[e]) = Heading(metafield[c].events[e])

\* C18: once an event exists no later submission changes its id, name, date
\* or collection_handle: a submission for its event_handle under another
\* event_name, or on a later day, leaves name and date as they were set at
\* creation and changes its wine list only.
C18_EventSetOnce == [][C18_HeadingsKept]_vars

\* C18 witness: a submission under another name and on a later day was stored
\* for an event, which has the name and the date it had.
C18_Witness ==
    \E r \in Slots :
        LET q == req[r]
            e == FindEvent(Before(q), q.body.event_handle)
        IN  /\ Wrote(r)
            /\ e # 0
            /\ q.body.event_name # Undefined
            /\ q.body.event_name # Before(q)[e].name
            /\ DateOf(q.at) # Before(q)[e].date
            /\ Stored(q.gid)[e].name = Before(q)[e].name
            /\ Stored(q.gid)[e].date = Before(q)[e].date
            /\ Stored(q.gid)[e].wines # Before(q)[e].wines

\* C19: the two handlers implement the same merge: from the document a
\* request read, its payload and its instant, the document the proxy handler
\* writes is the document the direct handler writes, a product_id given as a
\* numeric string included.
C19_SameMerge ==
    \A r \in Slots :
        LET q == req[r]
        IN  q.pc = "write" =>
                /\ q.store = ProxyMerge(ParseStored(q.snapshot), q.body, q.at)
                /\ q.store = DirectMerge(ParseStored(q.snapshot), q.body, q.at)

\* C20: whatever JSON the metafield holds (null, a number, an object without
\* an events list, an event without a wines list), an accepted submission
\* whose remote calls are all answered ends in a response of the handler: the
\* merge does not fault and the request is not left unanswered.
C20_MergeNeverFaults ==
    \A r \in Slots :
        (req[r].pc = "done" /\ ~RemoteFailed(req[r])) =>
            /\ ~req[r].resp.thrown
            /\ req[r].resp # NoResponse

====
